---- MODULE Spec2Model ----
(***************************************************************************)
(* State-machine model of the C.R.U.D.dy task list: the TaskID counter,    *)
(* the Task record with its validated setters, and TaskManager's           *)
(* add / get / get_all / delete operations over its task_list.             *)
(*                                                                         *)
(* Python values are tagged records [type, v]. A str is the sequence of    *)
(* its characters (one-character strings), an int is <<n>>, a reference to *)
(* a Task object is <<r>> with r the object's index in `heap`, a datetime  *)
(* is <<year, month, day, hour, minute>>, None is <<>>.                    *)
(***************************************************************************)
EXTENDS Integers, Sequences, FiniteSets, TLC

---------------------------------------------------------------------------
(* Bounds of the model *)

\* number of TaskID.generate() calls explored (direct calls and constructions)
MaxIssued == 2
\* number of Task objects alive on the heap
MaxTasks == 2
\* number of TaskManager objects a scenario builds: one without a list and
\* one from a list, as each test of the manager does
NumManagers == 2
\* number of Task objects alive while their fields are edited
MaxEdited == 1

---------------------------------------------------------------------------
(* Python values *)

None == [type |-> "NoneType", v |-> <<>>]
Str(s) == [type |-> "str", v |-> s]
PyInt(n) == [type |-> "int", v |-> <<n>>]
TaskRef(r) == [type |-> "Task", v |-> <<r>>]
DateTime(y, m, d, H, M) == [type |-> "datetime", v |-> <<y, m, d, H, M>>]

\* equality of two values neither of which is a Task (built-in ==)
SameValue(a, b) == a.type = b.type /\ a.v = b.v

DigitChars == <<"0", "1", "2", "3", "4", "5", "6", "7", "8", "9">>

RECURSIVE Digits(_)
\* the decimal digits of a non-negative int, most significant first
Digits(n) ==
    IF n < 10 THEN <<DigitChars[n + 1]>>
    ELSE Digits(n \div 10) \o <<DigitChars[(n % 10) + 1]>>

\* str(n) for an int n; the counter is never issued while negative
PyStr(n) == IF n < 0 THEN Str(<<"-">> \o Digits(0 - n)) ELSE Str(Digits(n))

\* the decimal digits of n, zero-padded on the left to `width` characters
Pad(n, width) ==
    LET d == Digits(n)
    IN  [i \in 1..(width - Len(d)) |-> "0"] \o d

\* str(x) for the values a setter is handed: a str is itself, None is "None",
\* an int its decimal form, a datetime "YYYY-MM-DD HH:MM:00"
StrOf(x) ==
    CASE x.type = "str" -> x
      [] x.type = "NoneType" -> Str(<<"N", "o", "n", "e">>)
      [] x.type = "int" -> PyStr(x.v[1])
      [] x.type = "datetime" ->
            Str(Pad(x.v[1], 4) \o <<"-">> \o Pad(x.v[2], 2) \o <<"-">>
                \o Pad(x.v[3], 2) \o <<" ">> \o Pad(x.v[4], 2) \o <<":">>
                \o Pad(x.v[5], 2) \o <<":", "0", "0">>)

UpperChars == <<"A", "B", "C", "D", "E", "F", "G", "H", "I", "J", "K", "L", "M",
                "N", "O", "P", "Q", "R", "S", "T", "U", "V", "W", "X", "Y", "Z">>
LowerChars == <<"a", "b", "c", "d", "e", "f", "g", "h", "i", "j", "k", "l", "m",
                "n", "o", "p", "q", "r", "s", "t", "u", "v", "w", "x", "y", "z">>

LowerChar(c) ==
    IF \E i \in 1..Len(UpperChars) : UpperChars[i] = c
    THEN LowerChars[CHOOSE i \in 1..Len(UpperChars) : UpperChars[i] = c]
    ELSE c

\* str.lower()
Lower(s) == [i \in 1..Len(s) |-> LowerChar(s[i])]

WhitespaceChars == {" ", "\t", "\n", "\r", "\f"}

\* str.strip() is non-empty exactly when some character is not whitespace
StripIsNonEmpty(s) == \E i \in 1..Len(s) : s[i] \notin WhitespaceChars

\* a truth test that takes only None for false
TruthyUnlessNone(x) == x.type # "NoneType"

\* bool(x) for the values the constructor tests
Truthy(x) ==
    CASE x.type = "NoneType" -> FALSE
      [] x.type = "str" -> Len(x.v) > 0
      [] x.type = "int" -> x.v[1] # 0
      [] OTHER -> TRUE

---------------------------------------------------------------------------
(* TaskValidator *)

VALID_STATUSES ==
    << <<"p", "e", "n", "d", "i", "n", "g">>,
       <<"i", "n", " ", "p", "r", "o", "g", "r", "e", "s", "s">>,
       <<"c", "o", "m", "p", "l", "e", "t", "e", "d">> >>

\* a title test that accepts every str, blank ones included
validate_title_any_str(new_title) == new_title.type = "str"

validate_title(new_title) ==
    new_title.type = "str" /\ StripIsNonEmpty(new_title.v)

validate_description(new_desc) ==
    new_desc.type = "NoneType" \/ new_desc.type = "str"

validate_status(new_status) ==
    /\ new_status.type = "str"
    /\ \E i \in 1..Len(VALID_STATUSES) : VALID_STATUSES[i] = Lower(new_status.v)

IsDigit(c) == \E i \in 1..Len(DigitChars) : DigitChars[i] = c
DigitVal(c) == (CHOOSE i \in 1..Len(DigitChars) : DigitChars[i] = c) - 1

RECURSIVE ToInt(_)
\* int() of a non-empty sequence of digit characters
ToInt(s) ==
    IF Len(s) = 0 THEN 0
    ELSE 10 * ToInt(SubSeq(s, 1, Len(s) - 1)) + DigitVal(s[Len(s)])

\* the number of leading digit characters of s, at most max
RECURSIVE DigitRun(_, _)
DigitRun(s, max) ==
    IF max = 0 \/ Len(s) = 0 \/ ~IsDigit(s[1]) THEN 0
    ELSE 1 + DigitRun(Tail(s), max - 1)

Drop(s, n) == SubSeq(s, n + 1, Len(s))

\* re.match(r"\d{1,2}\/\d{1,2}\/\d{4}", s): the pattern matches a prefix of s
\* (greedy digit runs; after a run of two digits the next char must be "/",
\* and backtracking to a shorter run cannot help since the next char of a
\* shorter run would be a digit, not "/")
MatchesDatePattern(s) ==
    LET n1 == DigitRun(s, 2)
        r1 == Drop(s, n1)
        n2 == IF Len(r1) > 0 THEN DigitRun(Tail(r1), 2) ELSE 0
        r2 == IF Len(r1) > 0 THEN Drop(Tail(r1), n2) ELSE <<>>
    IN  /\ n1 >= 1
        /\ Len(r1) > 0 /\ r1[1] = "/"
        /\ n2 >= 1
        /\ Len(r2) > 0 /\ r2[1] = "/"
        /\ DigitRun(Tail(r2), 4) = 4

IsLeap(y) == (y % 4 = 0 /\ y % 100 # 0) \/ y % 400 = 0

\* a calendar without leap years
DaysInMonthCommon(y, m) ==
    IF m = 2 THEN 28 ELSE IF m \in {4, 6, 9, 11} THEN 30 ELSE 31

\* the number of days of month m of year y (calendar.monthrange, which
\* datetime's constructor checks the day against)
DaysInMonth(y, m) ==
    IF m = 2 THEN (IF IsLeap(y) THEN 29 ELSE 28)
    ELSE IF m \in {4, 6, 9, 11} THEN 30 ELSE 31

\* the length of a %m or %d directive field: strptime's patterns are
\* 1[0-2]|0[1-9]|[1-9] and 3[01]|[12]\d|0[1-9]|[1-9]| [1-9], tried in that
\* order (the " [1-9]" form never passes the digit-first pattern above)
FieldLen(s, hi) ==
    LET n == DigitRun(s, 2)
    IN  IF n = 2 /\ ToInt(SubSeq(s, 1, 2)) >= 1 /\ ToInt(SubSeq(s, 1, 2)) <= hi
        THEN 2
        ELSE IF n >= 1 /\ ToInt(SubSeq(s, 1, 1)) >= 1 THEN 1 ELSE 0

\* datetime.strptime(s, "%m/%d/%Y"): <<TRUE, datetime>> or <<FALSE, None>>
\* when it raises ValueError (no match, unconverted data, date out of range)
Strptime(s) ==
    LET n1 == FieldLen(s, 12)
        r1 == Drop(s, n1)
        n2 == IF Len(r1) > 0 THEN FieldLen(Tail(r1), 31) ELSE 0
        r2 == IF Len(r1) > 0 THEN Drop(Tail(r1), n2) ELSE <<>>
        ys == IF Len(r2) > 0 THEN Tail(r2) ELSE <<>>
        ok == /\ n1 >= 1
              /\ Len(r1) > 0 /\ r1[1] = "/"
              /\ n2 >= 1
              /\ Len(r2) > 0 /\ r2[1] = "/"
              /\ Len(ys) = 4 /\ DigitRun(ys, 4) = 4
        mo == ToInt(SubSeq(s, 1, n1))
        dy == ToInt(SubSeq(Tail(r1), 1, n2))
        yr == ToInt(ys)
    IN  IF ok /\ yr >= 1 /\ dy <= DaysInMonth(yr, mo)
        THEN <<TRUE, DateTime(yr, mo, dy, 0, 0)>>
        ELSE <<FALSE, None>>

validate_due_date(new_due_date) ==
    IF new_due_date.type = "datetime" THEN TRUE
    ELSE IF new_due_date.type = "str" /\ MatchesDatePattern(new_due_date.v)
         THEN Strptime(new_due_date.v)[1]
         ELSE FALSE

---------------------------------------------------------------------------
(* State *)

VARIABLES
    last_task_id,   \* TaskID._last_task_id
    issued,         \* history: every value TaskID.generate() has returned
    heap,           \* the Task objects constructed so far, by reference
    lists,          \* the list objects, each a sequence of Task references
    managers,       \* the TaskManager objects: managers[m] is the reference
                    \* of the list object held in its task_list attribute
    result          \* the outcome of the last operation

vars == <<last_task_id, issued, heap, lists, managers, result>>

NoResult ==
    [op |-> "none", arg |-> None, outcome |-> "return",
     error |-> "", carried |-> None, ret |-> None]

Return(op, arg, val) ==
    [op |-> op, arg |-> arg, outcome |-> "return",
     error |-> "", carried |-> None, ret |-> val]

Raise(op, arg, err, carried) ==
    [op |-> op, arg |-> arg, outcome |-> "raise",
     error |-> err, carried |-> carried, ret |-> None]

\* TaskManager(): the task_list attribute is a fresh empty list
Init ==
    /\ last_task_id = -1
    /\ issued = <<>>
    /\ heap = <<>>
    /\ lists = << <<>> >>
    /\ managers = <<1>>
    /\ result = NoResult

\* self.task_list of manager m
task_list(m) == lists[managers[m]]

---------------------------------------------------------------------------
(* TaskID *)

\* an increment computed from the initial value instead of the stored one,
\* so that every call issues the same identifier
generate_counter_restarts(last) == (0 - 1) + 1

\* TaskID.generate(): the new counter value and the id it returns
generate_counter(last) == last + 1
generate_id(last) == PyStr(generate_counter(last))

Generate ==
    /\ Len(issued) < MaxIssued
    /\ last_task_id' = generate_counter(last_task_id)
    /\ issued' = Append(issued, generate_id(last_task_id))
    /\ result' = Return("generate", None, generate_id(last_task_id))
    /\ UNCHANGED <<heap, lists, managers>>

---------------------------------------------------------------------------
(* Task *)

PENDING == Str(<<"p", "e", "n", "d", "i", "n", "g">>)

\* the datetime a validated due date is stored as
resolve_due_date(new_due_date) ==
    IF new_due_date.type = "datetime" THEN new_due_date
    ELSE Strptime(new_due_date.v)[2]

\* the errors of the setters: the attributes each __init__ sets on the
\* exception, and `message`, the values its f-string interpolates
InvalidTaskTitleError(task_id) ==
    [task_id |-> task_id, message |-> <<task_id>>]

InvalidTaskStatusError(task_id, attempted_status) ==
    [attempted_status |-> attempted_status,
     valid_statuses |-> VALID_STATUSES,
     message |-> <<StrOf(attempted_status), task_id>>]

InvalidTaskDueDateError(task_id, new_due_date) ==
    [new_due_date |-> new_due_date,
     message |-> <<new_due_date, task_id>>]

\* a title assignment that also overwrites the identifier
title_setter_rekeys(task, new_title) ==
    [task EXCEPT !.title = new_title, !.task_id = new_title]

\* self._title = new_title
title_setter(task, new_title) == [task EXCEPT !.title = new_title]

\* a status assignment that stores the value as it was typed
status_setter_verbatim(task, new_status) == [task EXCEPT !.status = new_status]

\* self._status = new_status.lower()
status_setter(task, new_status) ==
    [task EXCEPT !.status = Str(Lower(new_status.v))]

\* self._due_date = the datetime itself, or strptime of the string
due_date_setter(task, new_due_date) ==
    [task EXCEPT !.due_date = resolve_due_date(new_due_date)]

\* the object __init__ starts from: only _task_id is set
NewObject(id) ==
    [task_id |-> id, title |-> None, description |-> None,
     due_date |-> None, status |-> None]

\* a construction that validates the fields before it asks for an id, so
\* that a failed construction consumes none
TaskInitValidatesFirst(title, description, due_date, status, now) ==
    LET id == generate_id(last_task_id)
        due == IF Truthy(due_date) THEN due_date ELSE now
        st == IF Truthy(status) THEN status ELSE PENDING
    IN  /\ Len(issued) < MaxIssued
        /\ UNCHANGED <<lists, managers>>
        /\ IF ~validate_title(title)
           THEN /\ result' = Raise("Task", title, "InvalidTaskTitleError",
                                   InvalidTaskTitleError(id))
                /\ UNCHANGED <<heap, last_task_id, issued>>
           ELSE IF ~validate_due_date(due)
           THEN /\ result' = Raise("Task", due, "InvalidTaskDueDateError",
                                   InvalidTaskDueDateError(id, StrOf(due)))
                /\ UNCHANGED <<heap, last_task_id, issued>>
           ELSE IF ~validate_status(st)
           THEN /\ result' = Raise("Task", st, "InvalidTaskStatusError",
                                   InvalidTaskStatusError(id, st))
                /\ UNCHANGED <<heap, last_task_id, issued>>
           ELSE /\ Len(heap) < MaxTasks
                /\ last_task_id' = generate_counter(last_task_id)
                /\ issued' = Append(issued, id)
                /\ heap' = Append(heap,
                        status_setter(
                            due_date_setter(
                                [title_setter(NewObject(id), title)
                                    EXCEPT !.description = description],
                                due),
                            st))
                /\ result' = Return("Task", title, TaskRef(Len(heap) + 1))

\* Task.__init__: the id is generated first, then title, description,
\* due_date and status are assigned in that order through the setters; the
\* first failing setter raises its error and no Task object results. `now`
\* is the value datetime.now() returns.
TaskInit(title, description, due_date, status, now) ==
    LET id == generate_id(last_task_id)
        due == IF Truthy(due_date) THEN due_date ELSE now
        st == IF Truthy(status) THEN status ELSE PENDING
    IN  /\ Len(issued) < MaxIssued
        /\ last_task_id' = generate_counter(last_task_id)
        /\ issued' = Append(issued, id)
        /\ UNCHANGED <<lists, managers>>
        /\ IF ~validate_title(title)
           THEN /\ result' = Raise("Task", title, "InvalidTaskTitleError",
                                   InvalidTaskTitleError(id))
                /\ heap' = heap
           ELSE IF ~validate_due_date(due)
           THEN /\ result' = Raise("Task", due, "InvalidTaskDueDateError",
                                   InvalidTaskDueDateError(id, StrOf(due)))
                /\ heap' = heap
           ELSE IF ~validate_status(st)
           THEN /\ result' = Raise("Task", st, "InvalidTaskStatusError",
                                   InvalidTaskStatusError(id, st))
                /\ heap' = heap
           ELSE /\ Len(heap) < MaxTasks
                /\ heap' = Append(heap,
                        status_setter(
                            due_date_setter(
                                [title_setter(NewObject(id), title)
                                    EXCEPT !.description = description],
                                due),
                            st))
                /\ result' = Return("Task", title, TaskRef(Len(heap) + 1))

\* a title setter that writes the field before it looks at the validation
SetTitleAssignsFirst(r, new_title) ==
    /\ heap' = [heap EXCEPT ![r] = title_setter(@, new_title)]
    /\ result' = IF validate_title(new_title)
                 THEN Return("title", new_title, None)
                 ELSE Raise("title", new_title, "InvalidTaskTitleError",
                            InvalidTaskTitleError(heap[r].task_id))
    /\ UNCHANGED <<last_task_id, issued, lists, managers>>

\* Task.title = new_title on the object r denotes
SetTitle(r, new_title) ==
    /\ IF validate_title(new_title)
       THEN /\ heap' = [heap EXCEPT ![r] = title_setter(@, new_title)]
            /\ result' = Return("title", new_title, None)
       ELSE /\ heap' = heap
            /\ result' = Raise("title", new_title, "InvalidTaskTitleError",
                               InvalidTaskTitleError(heap[r].task_id))
    /\ UNCHANGED <<last_task_id, issued, lists, managers>>

\* a status setter that refuses to leave the status "completed"
SetStatusOneWay(r, new_status) ==
    /\ IF validate_status(new_status)
            /\ heap[r].status.v # VALID_STATUSES[Len(VALID_STATUSES)]
       THEN /\ heap' = [heap EXCEPT ![r] = status_setter(@, new_status)]
            /\ result' = Return("status", new_status, None)
       ELSE /\ heap' = heap
            /\ result' = Raise("status", new_status, "InvalidTaskStatusError",
                               InvalidTaskStatusError(heap[r].task_id,
                                                      new_status))
    /\ UNCHANGED <<last_task_id, issued, lists, managers>>

\* Task.status = new_status
SetStatus(r, new_status) ==
    /\ IF validate_status(new_status)
       THEN /\ heap' = [heap EXCEPT ![r] = status_setter(@, new_status)]
            /\ result' = Return("status", new_status, None)
       ELSE /\ heap' = heap
            /\ result' = Raise("status", new_status, "InvalidTaskStatusError",
                               InvalidTaskStatusError(heap[r].task_id,
                                                      new_status))
    /\ UNCHANGED <<last_task_id, issued, lists, managers>>

\* Task.due_date = new_due_date: the error is built from str(new_due_date)
SetDueDate(r, new_due_date) ==
    /\ IF validate_due_date(new_due_date)
       THEN /\ heap' = [heap EXCEPT ![r] = due_date_setter(@, new_due_date)]
            /\ result' = Return("due_date", new_due_date, None)
       ELSE /\ heap' = heap
            /\ result' = Raise("due_date", new_due_date,
                               "InvalidTaskDueDateError",
                               InvalidTaskDueDateError(heap[r].task_id,
                                                       StrOf(new_due_date)))
    /\ UNCHANGED <<last_task_id, issued, lists, managers>>

\* Task.task_id = value: the property has no setter, the assignment raises
\* AttributeError and the object is not written
SetTaskId(r, value) ==
    /\ result' = Raise("task_id", value, "AttributeError", None)
    /\ UNCHANGED <<last_task_id, issued, heap, lists, managers>>

\* Task.task_id, Task.title of the object a reference denotes
task_id_of(t) == heap[t.v[1]].task_id
title_of(t) == heap[t.v[1]].title

\* Task.__eq__(self, other)
Task__eq__(self, other) ==
    IF other.type = "str"
    THEN SameValue(other, task_id_of(self)) \/ SameValue(other, title_of(self))
    ELSE IF other.type = "Task"
    THEN SameValue(task_id_of(other), task_id_of(self))
    ELSE FALSE

\* an == that converts an int to its decimal string before comparing it with
\* a str, so that the int 1 equals the id "1"
PyEqCoerce(a, b) ==
    IF a.type = "Task" THEN Task__eq__(a, b)
    ELSE IF b.type = "Task" THEN Task__eq__(b, a)
    ELSE IF a.type = "str" /\ b.type = "int" THEN SameValue(a, PyStr(b.v[1]))
    ELSE IF a.type = "int" /\ b.type = "str" THEN SameValue(PyStr(a.v[1]), b)
    ELSE SameValue(a, b)

\* a == b: Task.__eq__ when the left operand is a Task, the reflected
\* Task.__eq__ when only the right operand is, the built-in == otherwise
PyEq(a, b) ==
    IF a.type = "Task" THEN Task__eq__(a, b)
    ELSE IF b.type = "Task" THEN Task__eq__(b, a)
    ELSE SameValue(a, b)

---------------------------------------------------------------------------
(* TaskManager *)

ListRef(l) == [type |-> "list", v |-> <<l>>]

\* TaskManager.__init__(task_list): `task_list if task_list else []` keeps
\* the caller's list object when it is non-empty and makes a fresh empty
\* list otherwise. The caller passes nothing (None) ...
TaskManagerInitDefault ==
    /\ Len(managers) < NumManagers
    /\ lists' = Append(lists, <<>>)
    /\ managers' = Append(managers, Len(lists) + 1)
    /\ result' = Return("TaskManager", None, None)
    /\ UNCHANGED <<last_task_id, issued, heap>>

\* a constructor that keeps a copy of the list it is handed
TaskManagerInitCopies(l) ==
    /\ Len(managers) < NumManagers
    /\ lists' = Append(lists, lists[l])
    /\ managers' = Append(managers, Len(lists) + 1)
    /\ result' = Return("TaskManager", ListRef(l), None)
    /\ UNCHANGED <<last_task_id, issued, heap>>

\* ... or a list object that exists already (one obtained from
\* get_all_tasks, or passed to an earlier constructor) ...
TaskManagerInitShared(l) ==
    /\ Len(managers) < NumManagers
    /\ IF Len(lists[l]) > 0
       THEN /\ managers' = Append(managers, l)
            /\ lists' = lists
       ELSE /\ lists' = Append(lists, <<>>)
            /\ managers' = Append(managers, Len(lists) + 1)
    /\ result' = Return("TaskManager", ListRef(l), None)
    /\ UNCHANGED <<last_task_id, issued, heap>>

\* ... or a list newly built from existing Tasks, items being their references
TaskManagerInitNew(items) ==
    /\ Len(managers) < NumManagers
    /\ lists' = Append(lists, items)
    /\ managers' = Append(managers, Len(lists) + 1)
    /\ result' = Return("TaskManager", ListRef(Len(lists) + 1), None)
    /\ UNCHANGED <<last_task_id, issued, heap>>

\* a membership test that misses the last element
ContainsSkipsLast(list, task) ==
    \E i \in 1..(Len(list) - 1) :
        SameValue(TaskRef(list[i]), task) \/ PyEq(TaskRef(list[i]), task)

\* `task in self.task_list`: some element is the object or compares equal
Contains(list, task) ==
    \E i \in 1..Len(list) :
        SameValue(TaskRef(list[i]), task) \/ PyEq(TaskRef(list[i]), task)

\* an insertion at the front of the list
ListInsertFront(list, r) == <<r>> \o list

\* self.task_list.append(task)
ListAppend(list, r) == Append(list, r)

\* TaskManager.add_task(task)
AddTask(m, task) ==
    /\ IF ~Contains(task_list(m), task)
       THEN /\ lists' = [lists EXCEPT ![managers[m]] = ListAppend(@, task.v[1])]
            /\ result' = Return("add_task", task, None)
       ELSE /\ lists' = lists
            /\ result' = Raise("add_task", task, "AddDuplicateTaskError",
                               title_of(task))
    /\ UNCHANGED <<last_task_id, issued, heap, managers>>

\* a scan that compares the title instead of the id
MatchesTitle(list, task_id) ==
    {i \in 1..Len(list) : PyEq(title_of(TaskRef(list[i])), task_id)}

\* the positions of the Tasks that `task.task_id == task_id` selects
Matches(list, task_id) ==
    {i \in 1..Len(list) : PyEq(task_id_of(TaskRef(list[i])), task_id)}

Min(S) == CHOOSE i \in S : \A j \in S : i <= j

\* a get_task that scans before it looks at the list's emptiness
get_task_scans_first(m, task_id) ==
    IF Matches(task_list(m), task_id) # {}
    THEN Return("get_task", task_id,
            TaskRef(task_list(m)[Min(Matches(task_list(m), task_id))]))
    ELSE Raise("get_task", task_id, "TaskNotFoundError", task_id)

\* TaskManager.get_task(task_id): what it returns or raises
get_task(m, task_id) ==
    IF Len(task_list(m)) > 0
    THEN IF Matches(task_list(m), task_id) # {}
         THEN Return("get_task", task_id,
                 TaskRef(task_list(m)[Min(Matches(task_list(m), task_id))]))
         ELSE Raise("get_task", task_id, "TaskNotFoundError", task_id)
    ELSE Raise("get_task", task_id, "EmptyTaskListError", None)

GetTask(m, task_id) ==
    /\ result' = get_task(m, task_id)
    /\ UNCHANGED <<last_task_id, issued, heap, lists, managers>>

\* TaskManager.get_all_tasks(): the list object itself
GetAllTasks(m) ==
    /\ result' = Return("get_all_tasks", None, ListRef(managers[m]))
    /\ UNCHANGED <<last_task_id, issued, heap, lists, managers>>

\* a removal of every element that is x or equals x
RemoveAll(list, x) ==
    SelectSeq(list, LAMBDA r :
        ~(SameValue(TaskRef(r), x) \/ PyEq(TaskRef(r), x)))

\* list.remove(x): the list without its first element that is x or equals x
Remove(list, x) ==
    LET hits == {i \in 1..Len(list) :
                    SameValue(TaskRef(list[i]), x) \/ PyEq(TaskRef(list[i]), x)}
        k == Min(hits)
    IN  SubSeq(list, 1, k - 1) \o SubSeq(list, k + 1, Len(list))

\* only an int or an object with a task_id attribute passes the first line
\* of delete_task; any other value raises AttributeError there
HasTaskIdAttr(task) == task.type = "Task"

\* TaskManager.delete_task(task)
DeleteTask(m, task) ==
    /\ UNCHANGED <<last_task_id, issued, heap, managers>>
    /\ IF task.type # "int" /\ ~HasTaskIdAttr(task)
       THEN /\ result' = Raise("delete_task", task, "AttributeError", None)
            /\ lists' = lists
       ELSE LET task_id == IF task.type = "int" THEN task ELSE task_id_of(task)
                found == get_task(m, task_id)
            IN  IF Len(task_list(m)) > 0
                THEN IF found.outcome = "raise"
                     THEN /\ result' = [found EXCEPT !.op = "delete_task",
                                                     !.arg = task]
                          /\ lists' = lists
                     ELSE /\ lists' = [lists EXCEPT ![managers[m]] =
                                          Remove(@, found.ret)]
                          /\ result' = Return("delete_task", task, None)
                ELSE /\ result' = Raise("delete_task", task,
                                        "EmptyTaskListError", task_id)
                     /\ lists' = lists

---------------------------------------------------------------------------
(* The callers' inputs and the specification *)

\* titles handed to the constructor: a valid one, spelled like an
\* identifier, and a blank one that makes the construction fail
Titles == {Str(<<"0">>), Str(<<" ">>)}

\* a status and a due date the constructor rejects
BadStatus == Str(<<"d", "o", "n", "e">>)
BadDueDate == Str(<<"0", "2", "/", "3", "0", "/", "2", "0", "2", "4">>)

\* the value datetime.now() returns during a construction
Now == DateTime(2024, 11, 1, 9, 30)

Managers == 1..Len(managers)
TaskArgs == {TaskRef(r) : r \in 1..Len(heap)}
\* identifier strings: the ids of the Tasks that exist and the next id
IdArgs == {heap[r].task_id : r \in 1..Len(heap)} \cup {generate_id(last_task_id)}
\* integers: a position inside a list of two or more Tasks (also the number
\* the second id spells) and a position past the end of a list of MaxTasks
IntArgs == {PyInt(1), PyInt(MaxTasks)}
\* lists a caller builds from the Tasks that exist
NewLists ==
    {<<r>> : r \in 1..Len(heap)}
        \cup {<<r, q>> : r \in 1..Len(heap), q \in 1..Len(heap)}

NewTask ==
    \/ \E title \in Titles : TaskInit(title, None, None, PENDING, Now)
    \/ TaskInit(Str(<<"0">>), None, BadDueDate, None, Now)
    \/ TaskInit(Str(<<"0">>), None, None, BadStatus, Now)

NewManager ==
    \/ TaskManagerInitDefault
    \/ \E l \in 1..Len(lists) : TaskManagerInitShared(l)
    \/ \E items \in NewLists : TaskManagerInitNew(items)

Add == \E m \in Managers : \E task \in TaskArgs : AddTask(m, task)

Get ==
    \E m \in Managers :
        \/ \E id \in IdArgs : GetTask(m, id)
        \/ \E k \in IntArgs : GetTask(m, k)
        \/ \E task \in TaskArgs : GetTask(m, task)

GetAll == \E m \in Managers : GetAllTasks(m)

Delete ==
    \E m \in Managers :
        \/ \E id \in IdArgs : DeleteTask(m, id)
        \/ \E k \in IntArgs : DeleteTask(m, k)
        \/ \E task \in TaskArgs : DeleteTask(m, task)

Next == Generate \/ NewTask \/ NewManager \/ Add \/ Get \/ GetAll \/ Delete

Spec == Init /\ [][Next]_vars

---------------------------------------------------------------------------
(* Editing the fields of a Task held by one manager *)

\* titles: two valid ones, the second with blanks around it, and the empty
\* and the blank string
TitleArgs == {Str(<<"0">>), Str(<<" ", "a", " ">>), Str(<<>>), Str(<<" ">>)}

\* statuses: the three canonical ones in lower, mixed and upper case, a word
\* that is no status, and the empty string
StatusArgs ==
    {PENDING,
     Str(<<"I", "n", " ", "P", "r", "o", "g", "r", "e", "s", "s">>),
     Str(<<"C", "O", "M", "P", "L", "E", "T", "E", "D">>),
     BadStatus,
     Str(<<>>)}

\* due dates: a leap day without leading zeroes, a day that does not exist,
\* the empty and the blank string
DueDateArgs ==
    {Str(<<"2", "/", "2", "9", "/", "2", "0", "2", "4">>),
     BadDueDate,
     Str(<<>>),
     Str(<<" ">>)}

\* a value that is neither None, a str nor a datetime
NotAString == PyInt(5)
\* the int that is false in a truth test
FalsyInt == PyInt(0)

Tasks == 1..Len(heap)

Construct ==
    /\ Len(heap) < MaxEdited
    /\ \/ \E title \in TitleArgs : TaskInit(title, None, None, None, Now)
       \/ TaskInit(None, None, None, None, Now)
       \/ TaskInit(NotAString, None, None, None, Now)
       \/ \E status \in StatusArgs :
            TaskInit(Str(<<"0">>), None, None, status, Now)
       \/ \E due_date \in DueDateArgs :
            TaskInit(Str(<<"0">>), None, due_date, None, Now)
       \/ \E status \in {NotAString, FalsyInt} :
            TaskInit(Str(<<"0">>), None, None, status, Now)
       \/ \E due_date \in {NotAString, FalsyInt} :
            TaskInit(Str(<<"0">>), None, due_date, None, Now)

EditTitle ==
    \E r \in Tasks :
        \/ \E title \in TitleArgs : SetTitle(r, title)
        \/ SetTitle(r, None)
        \/ SetTitle(r, NotAString)

EditStatus ==
    \E r \in Tasks :
        \/ \E status \in StatusArgs : SetStatus(r, status)
        \/ SetStatus(r, None)
        \/ SetStatus(r, NotAString)

EditDueDate ==
    \E r \in Tasks :
        \/ \E due_date \in DueDateArgs : SetDueDate(r, due_date)
        \/ SetDueDate(r, Now)
        \/ SetDueDate(r, None)
        \/ SetDueDate(r, NotAString)

NextTask == Construct \/ EditTitle \/ EditStatus \/ EditDueDate

SpecTask == Init /\ [][NextTask]_vars

---------------------------------------------------------------------------
(* Editing the fields of the Tasks a manager holds: one accepted and one
   rejected value per field, between the manager's operations *)

GoodTitle == Str(<<" ", "a", " ">>)
BlankTitle == Str(<<" ">>)
GoodStatus == Str(<<"C", "O", "M", "P", "L", "E", "T", "E", "D">>)
GoodDueDate == Str(<<"2", "/", "2", "9", "/", "2", "0", "2", "4">>)

ConstructDefault ==
    /\ Len(heap) < MaxEdited
    /\ TaskInit(Str(<<"0">>), None, None, None, Now)

Retitle ==
    \E r \in Tasks : \E title \in {GoodTitle, BlankTitle} : SetTitle(r, title)

Restatus ==
    \E r \in Tasks : \E status \in {GoodStatus, BadStatus} : SetStatus(r, status)

Redate ==
    \E r \in Tasks :
        \E due_date \in {GoodDueDate, BadDueDate} : SetDueDate(r, due_date)

EditTaskId == \E r \in Tasks : \E id \in IdArgs : SetTaskId(r, id)

Retrieve == \E m \in Managers : \E id \in IdArgs : GetTask(m, id)

Discard == \E m \in Managers : \E task \in TaskArgs : DeleteTask(m, task)

NextEdit ==
    \/ ConstructDefault \/ Retitle \/ Restatus \/ Redate \/ EditTaskId
    \/ Add \/ Retrieve \/ GetAll \/ Discard

SpecEdit == Init /\ [][NextEdit]_vars

---------------------------------------------------------------------------
(* Date strings handed to validate_due_date and to the due_date setter *)

PyBool(b) == [type |-> "bool", v |-> <<b>>]

\* TaskValidator.validate_due_date(new_due_date), called on its own
ValidateDueDate(new_due_date) ==
    /\ result' = Return("validate_due_date", new_due_date,
                        PyBool(validate_due_date(new_due_date)))
    /\ UNCHANGED <<last_task_id, issued, heap, lists, managers>>

\* month, day and year fields: in and out of range, with and without a
\* leading zero, too short, too long, empty, not a number
MonthFields ==
    {<<"0">>, <<"1">>, <<"2">>, <<"4">>, <<"9">>, <<"0", "0">>, <<"0", "1">>,
     <<"0", "2">>, <<"0", "4">>, <<"1", "2">>, <<"1", "3">>,
     <<"0", "1", "2">>, <<>>, <<"a">>}
DayFields ==
    {<<"0">>, <<"1">>, <<"9">>, <<"0", "0">>, <<"0", "1">>, <<"2", "8">>,
     <<"2", "9">>, <<"3", "0">>, <<"3", "1">>, <<"3", "2">>,
     <<"0", "0", "1">>, <<>>}
YearFields ==
    {<<"0", "0", "0", "0">>, <<"0", "0", "0", "1">>, <<"1", "9", "0", "0">>,
     <<"2", "0", "0", "0">>, <<"2", "0", "2", "3">>, <<"2", "0", "2", "4">>,
     <<"9", "9", "9", "9">>, <<"2", "0", "2">>, <<"2", "0", "2", "4", "5">>,
     <<"2", "4">>}
\* what follows the year: nothing, or a blank
Tails == {<<>>, <<" ">>}

\* strings that are not three fields between two slashes
Malformed ==
    {<<>>, <<" ">>,
     <<" ", "1", "/", "1", "/", "2", "0", "2", "4">>,
     <<"1", "-", "1", "-", "2", "0", "2", "4">>,
     <<"1", "/", "1", "/", "2", "0", "2", "4", "\n">>,
     <<"1", "/", "1">>,
     <<"1", "/", "1", "/", "2", "0", "2", "4", "/", "1">>,
     <<"2", "0", "2", "4", "/", "1", "/", "1">>}

DateStrings ==
    {Str(m \o <<"/">> \o d \o <<"/">> \o y \o t) :
        m \in MonthFields, d \in DayFields, y \in YearFields, t \in Tails}
        \cup {Str(x) : x \in Malformed}

\* the date strings assigned to a Task: February days of a leap year, a
\* common year and the year 0000, and a month that does not exist
AssignedDates ==
    {Str(m \o <<"/">> \o d \o <<"/">> \o y) :
        m \in {<<"2">>, <<"0", "2">>, <<"1", "3">>},
        d \in {<<"2", "8">>, <<"2", "9">>, <<"3", "0">>},
        y \in {<<"0", "0", "0", "0">>, <<"2", "0", "2", "3">>,
               <<"2", "0", "2", "4">>}}
        \cup {Str(<<>>), Str(<<" ">>)}

\* one candidate is validated, as the first call of a scenario: the
\* validator reads and writes no state, so where the call stands is immaterial
Validate ==
    /\ result = NoResult
    /\ \/ \E s \in DateStrings : ValidateDueDate(s)
       \/ ValidateDueDate(Now)
       \/ ValidateDueDate(None)
       \/ ValidateDueDate(NotAString)

AssignDate ==
    \E r \in Tasks :
        \/ \E s \in AssignedDates : SetDueDate(r, s)
        \/ SetDueDate(r, None)

NextDate == ConstructDefault \/ Validate \/ AssignDate

SpecDate == Init /\ [][NextDate]_vars

---------------------------------------------------------------------------
(* Properties *)

\* some member of the list has this id string
HasId(list, id) ==
    \E i \in 1..Len(list) : SameValue(heap[list[i]].task_id, id)

\* the position of the first member of the list with this id string
FirstWithId(list, id) ==
    Min({i \in 1..Len(list) : SameValue(heap[list[i]].task_id, id)})

\* the list without its k-th element
Without(list, k) == SubSeq(list, 1, k - 1) \o SubSeq(list, k + 1, Len(list))

\* C1: all identifiers ever issued are pairwise distinct, whatever mix of
\* constructions (successful or failed), generate() calls, adds and deletes
\* led to the state; hence no two Task objects hold the same id, and every
\* held id is one that was issued.
C1_IdsNeverReused ==
    /\ \A i, j \in 1..Len(issued) :
            i # j => ~SameValue(issued[i], issued[j])
    /\ \A r, q \in 1..Len(heap) :
            r # q => ~SameValue(heap[r].task_id, heap[q].task_id)
    /\ \A r \in 1..Len(heap) :
            \E i \in 1..Len(issued) : SameValue(issued[i], heap[r].task_id)

\* a Task was just deleted from a collection, after at least two ids were
\* issued of which one is held by no Task (a failed construction or a direct
\* generate() call consumed it)
C1_Witness ==
    /\ result.op = "delete_task" /\ result.outcome = "return"
    /\ Len(issued) >= 2 /\ Len(issued) > Len(heap)

\* C2: add_task of a Task whose id a member already has raises
\* AddDuplicateTaskError carrying the task's title, and no list changes.
C2_DuplicateAddRejected ==
    [][result'.op = "add_task" => \A m \in Managers : \A task \in TaskArgs :
          (HasId(task_list(m), task_id_of(task)) /\ AddTask(m, task))
              => /\ result'.outcome = "raise"
                 /\ result'.error = "AddDuplicateTaskError"
                 /\ SameValue(result'.carried, title_of(task))
                 /\ lists' = lists]_vars

\* a duplicate add was just rejected by a manager that holds the Task
C2_Witness ==
    /\ result.op = "add_task" /\ result.error = "AddDuplicateTaskError"
    /\ \E m \in Managers : HasId(task_list(m), task_id_of(result.arg))

\* C3: add_task of a Task equal to no member returns, and the list becomes
\* the old list followed by the new Task: one longer, earlier members at
\* their positions, the new Task last.
C3_AddAppends ==
    [][result'.op = "add_task" => \A m \in Managers : \A task \in TaskArgs :
          (~HasId(task_list(m), task_id_of(task)) /\ AddTask(m, task))
              => LET old == lists[managers[m]]
                     new == lists'[managers[m]]
                 IN  /\ result'.outcome = "return"
                     /\ Len(new) = Len(old) + 1
                     /\ SubSeq(new, 1, Len(old)) = old
                     /\ new[Len(new)] = task.v[1]]_vars

\* a Task was just added behind an earlier member
C3_Witness ==
    /\ result.op = "add_task" /\ result.outcome = "return"
    /\ \E m \in Managers :
            /\ Len(task_list(m)) >= 2
            /\ task_list(m)[Len(task_list(m))] = result.arg.v[1]

\* what C4 states of one identifier
C4_RaisesEmpty(m, id) ==
    (Len(task_list(m)) = 0 /\ GetTask(m, id))
        => /\ result'.outcome = "raise"
           /\ result'.error = "EmptyTaskListError"
           /\ lists' = lists

\* C4: get_task on an empty collection raises EmptyTaskListError for every
\* identifier (an id string, of an existing Task or not, an int, a Task
\* reference), never TaskNotFoundError, and the collection stays empty.
C4_GetOnEmpty ==
    [][result'.op = "get_task" => \A m \in Managers :
          /\ \A id \in IdArgs : C4_RaisesEmpty(m, id)
          /\ \A k \in IntArgs : C4_RaisesEmpty(m, k)
          /\ \A task \in TaskArgs : C4_RaisesEmpty(m, task)]_vars

\* get_task of the id of an existing Task was just refused by an empty
\* collection
C4_Witness ==
    /\ result.op = "get_task" /\ result.error = "EmptyTaskListError"
    /\ result.arg.type = "str"
    /\ \E r \in 1..Len(heap) : SameValue(heap[r].task_id, result.arg)
    /\ \E m \in Managers : Len(task_list(m)) = 0

\* what C5 states of one identifier
C5_RaisesEmpty(m, id) ==
    (Len(task_list(m)) = 0 /\ DeleteTask(m, id))
        => /\ result'.outcome = "raise"
           /\ result'.error = "EmptyTaskListError"
           /\ lists' = lists

\* C5: delete_task on an empty collection raises EmptyTaskListError, and
\* nothing else, for an id string as task_id returns it and for a Task
\* reference; the collection stays empty.
C5_DeleteOnEmpty ==
    [][result'.op = "delete_task" => \A m \in Managers :
          /\ \A id \in IdArgs : C5_RaisesEmpty(m, id)
          /\ \A task \in TaskArgs : C5_RaisesEmpty(m, task)]_vars

\* C6: on a non-empty collection get_task of an id string returns the first
\* member, in list order, whose task_id is that string, and raises
\* TaskNotFoundError carrying the string when no member has it; the lists and
\* the Tasks' fields are unchanged either way.
C6_GetById ==
    [][result'.op = "get_task" => \A m \in Managers : \A id \in IdArgs :
          (Len(task_list(m)) > 0 /\ GetTask(m, id))
              => /\ lists' = lists /\ heap' = heap
                 /\ IF HasId(task_list(m), id)
                    THEN /\ result'.outcome = "return"
                         /\ SameValue(result'.ret,
                               TaskRef(task_list(m)[FirstWithId(task_list(m), id)]))
                    ELSE /\ result'.outcome = "raise"
                         /\ result'.error = "TaskNotFoundError"
                         /\ SameValue(result'.carried, id)]_vars

\* get_task of an id string just returned a member that is not the first
\* element of its list
C6_Witness ==
    /\ result.op = "get_task" /\ result.outcome = "return"
    /\ result.arg.type = "str"
    /\ \E m \in Managers :
            /\ HasId(task_list(m), result.arg)
            /\ FirstWithId(task_list(m), result.arg) > 1

\* C7: delete_task given the id string of a member returns and removes that
\* member: the list is one shorter and is the old list without one element
\* that has this id.
C7_DeleteById ==
    [][result'.op = "delete_task" => \A m \in Managers : \A id \in IdArgs :
          (HasId(task_list(m), id) /\ DeleteTask(m, id))
              => /\ result'.outcome = "return"
                 /\ \E k \in 1..Len(task_list(m)) :
                        /\ SameValue(heap[task_list(m)[k]].task_id, id)
                        /\ lists'[managers[m]] = Without(task_list(m), k)]_vars

\* C8: delete_task given a reference to a member returns and removes exactly
\* one element, one with that Task's id: the list is one shorter, the other
\* elements stay in their order, and no other list object changes.
C8_DeleteByReference ==
    [][result'.op = "delete_task" => \A m \in Managers : \A task \in TaskArgs :
          (HasId(task_list(m), task_id_of(task)) /\ DeleteTask(m, task))
              => /\ result'.outcome = "return"
                 /\ Len(lists'[managers[m]]) = Len(task_list(m)) - 1
                 /\ \E k \in 1..Len(task_list(m)) :
                        /\ task_list(m)[k] = task.v[1]
                        /\ lists'[managers[m]] = Without(task_list(m), k)
                 /\ \A l \in 1..Len(lists) :
                        l # managers[m] => lists'[l] = lists[l]]_vars

\* a Task was just deleted by reference and two or more elements remain
C8_Witness ==
    /\ result.op = "delete_task" /\ result.outcome = "return"
    /\ result.arg.type = "Task"
    /\ \E m \in Managers : Len(task_list(m)) >= 2

\* what C9 states of one identifier, id being the id string it denotes
C9_RaisesNotFound(m, arg, id) ==
    (Len(task_list(m)) > 0 /\ ~HasId(task_list(m), id) /\ DeleteTask(m, arg))
        => /\ result'.outcome = "raise"
           /\ result'.error = "TaskNotFoundError"
           /\ lists' = lists

\* C9: on a non-empty collection delete_task of a non-member, given as an id
\* string or as a Task reference, raises TaskNotFoundError and changes no
\* list.
C9_DeleteNonMember ==
    [][result'.op = "delete_task" => \A m \in Managers :
          /\ \A id \in IdArgs : C9_RaisesNotFound(m, id, id)
          /\ \A task \in TaskArgs :
                C9_RaisesNotFound(m, task, task_id_of(task))]_vars

C11_NoDuplicateMembers ==
    \A m \in Managers : \A i, j \in 1..Len(task_list(m)) :
        i # j => ~SameValue(heap[task_list(m)[i]].task_id,
                            heap[task_list(m)[j]].task_id)


\* a title the specification calls invalid: not a string, empty, or
\* whitespace only
C12_Invalid(title) ==
    title.type # "str" \/ \A i \in 1..Len(title.v) : title.v[i] \in WhitespaceChars

\* what C12 states of one assignment
C12_Assigned(r, title) ==
    (SameValue(result'.arg, title) /\ SetTitle(r, title))
        => IF C12_Invalid(title)
           THEN /\ result'.outcome = "raise"
                /\ result'.error = "InvalidTaskTitleError"
                /\ heap' = heap
           ELSE /\ result'.outcome = "return"
                /\ heap'[r].title = title

\* what C12 states of one construction
C12_Constructed(title) ==
    (SameValue(result'.arg, title) /\ TaskInit(title, None, None, None, Now))
        => IF C12_Invalid(title)
           THEN /\ result'.outcome = "raise"
                /\ result'.error = "InvalidTaskTitleError"
                /\ heap' = heap
           ELSE /\ result'.outcome = "return"
                /\ Len(heap') = Len(heap) + 1
                /\ heap'[Len(heap')].title = title

\* C12: an invalid title (None, a non-string, "", whitespace only) raises
\* InvalidTaskTitleError at construction and on assignment and creates or
\* changes no Task; a valid title is stored verbatim, untrimmed; so after
\* every step every Task's title is a string with a non-whitespace character.
C12_TitleValidated ==
    [][/\ result'.op = "title" => \A r \in Tasks :
              /\ \A title \in TitleArgs : C12_Assigned(r, title)
              /\ C12_Assigned(r, None)
              /\ C12_Assigned(r, NotAString)
       /\ result'.op = "Task" =>
              /\ \A title \in TitleArgs : C12_Constructed(title)
              /\ C12_Constructed(None)
              /\ C12_Constructed(NotAString)
       /\ \A r \in 1..Len(heap') :
              /\ heap'[r].title.type = "str"
              /\ \E i \in 1..Len(heap'[r].title.v) :
                    heap'[r].title.v[i] \notin WhitespaceChars]_vars

\* a blank title was just refused by a Task whose stored title is a valid
\* one with blanks around it
C12_Witness ==
    /\ result.op = "title" /\ result.error = "InvalidTaskTitleError"
    /\ result.arg = Str(<<" ">>)
    /\ \E r \in Tasks : heap[r].title = Str(<<" ", "a", " ">>)


\* the canonical statuses, as the specification spells them
C13_Canonical ==
    {<<"p", "e", "n", "d", "i", "n", "g">>,
     <<"i", "n", " ", "p", "r", "o", "g", "r", "e", "s", "s">>,
     <<"c", "o", "m", "p", "l", "e", "t", "e", "d">>}

\* what C13 states of one assignment
C13_Assigned(r, status) ==
    (SameValue(result'.arg, status) /\ SetStatus(r, status))
        => IF status.type = "str" /\ Lower(status.v) \in C13_Canonical
           THEN /\ result'.outcome = "return"
                /\ heap'[r].status = Str(Lower(status.v))
           ELSE /\ result'.outcome = "raise"
                /\ result'.error = "InvalidTaskStatusError"
                /\ heap' = heap

\* C13: assigning a string whose lower-cased form is canonical stores that
\* lower-cased form whatever the case of the string; any other value raises
\* InvalidTaskStatusError; so after every step, a construction included,
\* every Task's stored status is one of the canonical statuses.
C13_StatusCanonical ==
    [][/\ result'.op = "status" => \A r \in Tasks :
              /\ \A status \in StatusArgs : C13_Assigned(r, status)
              /\ C13_Assigned(r, None)
              /\ C13_Assigned(r, NotAString)
       /\ \A r \in 1..Len(heap') :
              /\ heap'[r].status.type = "str"
              /\ heap'[r].status.v \in C13_Canonical]_vars

\* the upper-case spelling of a status was just assigned and the Task's
\* stored status is the lower-case one
C13_Witness ==
    /\ result.op = "status" /\ result.outcome = "return"
    /\ result.arg = Str(<<"C", "O", "M", "P", "L", "E", "T", "E", "D">>)
    /\ \E r \in Tasks :
            heap[r].status = Str(<<"c", "o", "m", "p", "l", "e", "t", "e", "d">>)


\* the days of the twelve months of a common year
C14_Days == <<31, 28, 31, 30, 31, 30, 31, 31, 30, 31, 30, 31>>

C14_Leap(y) == y % 400 = 0 \/ (y % 4 = 0 /\ y % 100 # 0)

C14_Number(f) == \A i \in 1..Len(f) : IsDigit(f[i])

\* the month, day and year fields of a string with exactly two slashes
C14_Month(s) == SubSeq(s, 1, Min({i \in 1..Len(s) : s[i] = "/"}) - 1)
C14_Year(s) ==
    SubSeq(s, (CHOOSE i \in 1..Len(s) :
                  s[i] = "/" /\ \A j \in (i + 1)..Len(s) : s[j] # "/") + 1,
           Len(s))
C14_Day(s) ==
    SubSeq(s, Len(C14_Month(s)) + 2, Len(s) - Len(C14_Year(s)) - 1)

\* the whole string is M/D/YYYY: a month 1..12 of one or two digits, a day
\* of one or two digits that exists in that month of that year, four year
\* digits
C14_WellFormed(s) ==
    /\ Cardinality({i \in 1..Len(s) : s[i] = "/"}) = 2
    /\ Len(C14_Month(s)) \in 1..2 /\ C14_Number(C14_Month(s))
    /\ Len(C14_Day(s)) \in 1..2 /\ C14_Number(C14_Day(s))
    /\ Len(C14_Year(s)) = 4 /\ C14_Number(C14_Year(s))
    /\ ToInt(C14_Month(s)) \in 1..12
    /\ ToInt(C14_Day(s)) >= 1
    /\ ToInt(C14_Day(s)) <=
          IF ToInt(C14_Month(s)) = 2 /\ C14_Leap(ToInt(C14_Year(s))) THEN 29
          ELSE C14_Days[ToInt(C14_Month(s))]

\* ... and the year is one the calendar of datetime has, 0001 to 9999
C14_WellFormedInRange(s) == C14_WellFormed(s) /\ ToInt(C14_Year(s)) >= 1

\* midnight of the calendar date a well-formed string names
C14_Midnight(s) ==
    DateTime(ToInt(C14_Year(s)), ToInt(C14_Month(s)), ToInt(C14_Day(s)), 0, 0)

\* C14 as stated: validate_due_date of a string is true exactly when the
\* whole string is M/D/YYYY with a month 1..12, a day existing in that month
\* of that year and exactly four year digits; the setter stores midnight of
\* that date for a string it accepts and raises InvalidTaskDueDateError for
\* every other string and for None.
C14_DueDateFormat ==
    [][/\ (result'.op = "validate_due_date" /\ result'.arg.type = "str")
            => (result'.ret = PyBool(TRUE) <=> C14_WellFormed(result'.arg.v))
       /\ result'.op = "due_date" => \A r \in Tasks :
            /\ \A s \in AssignedDates :
                  (SameValue(result'.arg, s) /\ SetDueDate(r, s))
                    => IF C14_WellFormed(s.v)
                       THEN /\ result'.outcome = "return"
                            /\ heap'[r].due_date = C14_Midnight(s.v)
                       ELSE /\ result'.outcome = "raise"
                            /\ result'.error = "InvalidTaskDueDateError"
            /\ (result'.arg.type = "NoneType" /\ SetDueDate(r, None))
                    => /\ result'.outcome = "raise"
                       /\ result'.error = "InvalidTaskDueDateError"]_vars

\* C14 amended: the same with the year restricted to 0001..9999; a string
\* with the year 0000 is rejected like any other malformed one.
C14_DueDateFormatInRange ==
    [][/\ (result'.op = "validate_due_date" /\ result'.arg.type = "str")
            => (result'.ret = PyBool(TRUE)
                    <=> C14_WellFormedInRange(result'.arg.v))
       /\ (result'.op = "validate_due_date" /\ result'.arg.type = "NoneType")
            => result'.ret = PyBool(FALSE)
       /\ result'.op = "due_date" => \A r \in Tasks :
            /\ \A s \in AssignedDates :
                  (SameValue(result'.arg, s) /\ SetDueDate(r, s))
                    => IF C14_WellFormedInRange(s.v)
                       THEN /\ result'.outcome = "return"
                            /\ heap'[r].due_date = C14_Midnight(s.v)
                       ELSE /\ result'.outcome = "raise"
                            /\ result'.error = "InvalidTaskDueDateError"
                            /\ heap' = heap
            /\ (result'.arg.type = "NoneType" /\ SetDueDate(r, None))
                    => /\ result'.outcome = "raise"
                       /\ result'.error = "InvalidTaskDueDateError"
                       /\ heap' = heap]_vars

\* the leap day, written without a leading zero in the month, was just
\* assigned and the Task's due date is midnight of 29 February 2024
C14_Witness ==
    /\ result.op = "due_date" /\ result.outcome = "return"
    /\ result.arg = Str(<<"2", "/", "2", "9", "/", "2", "0", "2", "4">>)
    /\ \E r \in Tasks : heap[r].due_date = DateTime(2024, 2, 29, 0, 0)


\* the error each setter raises
C15_ErrorOf(op) ==
    CASE op = "title" -> "InvalidTaskTitleError"
      [] op = "status" -> "InvalidTaskStatusError"
      [] op = "due_date" -> "InvalidTaskDueDateError"

\* C15: an assignment to title, status or due_date of a Task either returns,
\* and then changes at most that field of that one Task, or raises the
\* setter's own error, and then every Task's id, title, description, status
\* and due_date and every collection's members and their order are what they
\* were before.
C15_UpdateAllOrNothing ==
    [][result'.op \in {"title", "status", "due_date"} =>
          /\ lists' = lists /\ managers' = managers
          /\ Len(heap') = Len(heap)
          /\ IF result'.outcome = "raise"
             THEN /\ result'.error = C15_ErrorOf(result'.op)
                  /\ heap' = heap
             ELSE \E r \in Tasks :
                      /\ \A q \in Tasks : q # r => heap'[q] = heap[q]
                      /\ heap'[r].task_id = heap[r].task_id
                      /\ heap'[r].description = heap[r].description
                      /\ result'.op # "title" => heap'[r].title = heap[r].title
                      /\ result'.op # "status"
                            => heap'[r].status = heap[r].status
                      /\ result'.op # "due_date"
                            => heap'[r].due_date = heap[r].due_date]_vars

\* a due date was just refused by a Task that is a member of a collection
\* and whose title and status had been changed before
C15_Witness ==
    /\ result.op = "due_date" /\ result.outcome = "raise"
    /\ \E m \in Managers : \E i \in 1..Len(task_list(m)) :
            /\ heap[task_list(m)[i]].title = GoodTitle
            /\ heap[task_list(m)[i]].status # PENDING


\* C16: a Task's id never changes after construction: an assignment to
\* task_id raises AttributeError, and no step (a setter, accepted or
\* refused, a construction of another Task, add, get, get_all, delete)
\* changes the task_id of a Task that exists.
C16_IdImmutable ==
    [][/\ \A r \in Tasks : Len(heap') >= r /\ heap'[r].task_id = heap[r].task_id
       /\ result'.op = "task_id" =>
              /\ result'.outcome = "raise"
              /\ result'.error = "AttributeError"
              /\ heap' = heap]_vars

\* an assignment to task_id was just refused, after the Task's title was
\* changed and the Task was added to a collection
C16_Witness ==
    /\ result.op = "task_id" /\ result.error = "AttributeError"
    /\ \E m \in Managers : \E i \in 1..Len(task_list(m)) :
            heap[task_list(m)[i]].title = GoodTitle


\* what C17 states of one refused status assignment
C17_StatusError(r, status) ==
    (SetStatus(r, status) /\ result'.outcome = "raise")
        => /\ \E i \in 1..Len(result'.carried.message) :
                  SameValue(result'.carried.message[i], heap[r].task_id)
           /\ SameValue(result'.carried.attempted_status, status)
           /\ {result'.carried.valid_statuses[i] :
                  i \in 1..Len(result'.carried.valid_statuses)} = C13_Canonical

\* what C17 states of one refused due-date assignment
C17_DueDateError(r, due_date) ==
    (SetDueDate(r, due_date) /\ result'.outcome = "raise")
        => /\ \E i \in 1..Len(result'.carried.message) :
                  SameValue(result'.carried.message[i], heap[r].task_id)
           /\ SameValue(result'.carried.new_due_date, due_date)

\* C17: the error of a refused status assignment carries the Task's id, the
\* attempted value and the canonical statuses; the error of a refused
\* due-date assignment carries the Task's id and the attempted value as it
\* was supplied, not a converted form of it.
C17_ErrorsCarryContext ==
    [][/\ result'.op = "status" => \A r \in Tasks :
              /\ \A status \in StatusArgs : C17_StatusError(r, status)
              /\ C17_StatusError(r, None)
              /\ C17_StatusError(r, NotAString)
       /\ result'.op = "due_date" => \A r \in Tasks :
              /\ \A due_date \in DueDateArgs : C17_DueDateError(r, due_date)
              /\ C17_DueDateError(r, None)
              /\ C17_DueDateError(r, NotAString)]_vars


\* what C18 states of one assignment
C18_Accepted(r, status) ==
    (/\ SameValue(result'.arg, status)
     /\ Lower(status.v) \in C13_Canonical
     /\ SetStatus(r, status))
        => /\ result'.outcome = "return"
           /\ heap'[r].status.v = Lower(status.v)

\* C18: the status has no transition restrictions: whatever status a Task
\* holds, assigning any valid status, in any letter case, succeeds and is
\* stored, and in every reachable state each canonical status can be given
\* to each Task by one assignment, so a Task never gets stuck in a status.
C18_AnyStatusFollowsAny ==
    /\ [][result'.op = "status" => \A r \in Tasks : \A status \in StatusArgs :
              C18_Accepted(r, status)]_vars
    /\ [](\A r \in Tasks : \A c \in C13_Canonical :
              ENABLED (SetStatus(r, Str(c)) /\ heap'[r].status.v = c))

\* a mixed-case status was just assigned by the setter and is the stored
\* status of a Task, in lower case
C18_Witness ==
    /\ result.op = "status" /\ result.outcome = "return"
    /\ result.arg =
          Str(<<"I", "n", " ", "P", "r", "o", "g", "r", "e", "s", "s">>)
    /\ \E r \in Tasks :
            heap[r].status.v = VALID_STATUSES[2]


\* C19: a collection owns its Tasks exclusively: no Task object is a member
\* of the collections of two TaskManager objects at the same time.
C19_ExclusiveOwnership ==
    \A m, n \in Managers :
        m # n => \A i \in 1..Len(task_list(m)) : \A j \in 1..Len(task_list(n)) :
                    task_list(m)[i] # task_list(n)[j]


\* the string is the decimal numeral of n, without sign or leading zeroes
C20_Decimal(id, n) ==
    /\ id.type = "str" /\ Len(id.v) >= 1
    /\ \A i \in 1..Len(id.v) : IsDigit(id.v[i])
    /\ (Len(id.v) > 1 => id.v[1] # "0")
    /\ ToInt(id.v) = n

\* C20: every call of the Task constructor, whether it returns a Task or
\* raises on the title, the due date or the status, advances the counter by
\* exactly one and issues the next identifier; the identifiers issued are
\* the decimal strings of 0, 1, 2, ... in that order; a Task that results
\* holds the identifier its construction issued, and a construction that
\* raises leaves the Tasks as they were, so its identifier is held by none.
C20_ConstructorConsumesId ==
    [][/\ result'.op = "Task" =>
              /\ last_task_id' = last_task_id + 1
              /\ Len(issued') = Len(issued) + 1
              /\ SubSeq(issued', 1, Len(issued)) = issued
              /\ IF result'.outcome = "raise"
                 THEN /\ heap' = heap
                      /\ \A r \in 1..Len(heap') :
                            ~SameValue(heap'[r].task_id, issued'[Len(issued')])
                 ELSE /\ Len(heap') = Len(heap) + 1
                      /\ SubSeq(heap', 1, Len(heap)) = heap
                      /\ SameValue(heap'[Len(heap')].task_id,
                                   issued'[Len(issued')])
       /\ \A i \in 1..Len(issued') : C20_Decimal(issued'[i], i - 1)
       /\ \A r \in Tasks : \A i \in 1..Len(issued') :
              SameValue(heap[r].task_id, issued'[i]) => i <= Len(issued)]_vars

\* a construction was just refused after an earlier one had succeeded: two
\* identifiers are issued and the last one is held by no Task
C20_Witness ==
    /\ result.op = "Task" /\ result.outcome = "raise"
    /\ Len(issued) >= 2 /\ Len(heap) >= 1
    /\ \A r \in Tasks : ~SameValue(heap[r].task_id, issued[Len(issued)])


\* false in a truth test: None, the empty string, the int 0
C21_Falsy(x) ==
    \/ x.type = "NoneType"
    \/ x.type = "str" /\ Len(x.v) = 0
    \/ x.type = "int" /\ x.v[1] = 0

\* what C21 states of a construction given this status and no due date
C21_WithStatus(status) ==
    TaskInit(Str(<<"0">>), None, None, status, Now)
        => IF C21_Falsy(status)
           THEN /\ result'.outcome = "return"
                /\ heap'[Len(heap')].status = PENDING
           ELSE IF status.type = "str" /\ Lower(status.v) \in C13_Canonical
           THEN /\ result'.outcome = "return"
                /\ heap'[Len(heap')].status = Str(Lower(status.v))
           ELSE /\ result'.outcome = "raise"
                /\ result'.error = "InvalidTaskStatusError"
                /\ heap' = heap

\* what C21 states of a construction given this due date and no status
C21_WithDueDate(due_date) ==
    TaskInit(Str(<<"0">>), None, due_date, None, Now)
        => IF C21_Falsy(due_date)
           THEN /\ result'.outcome = "return"
                /\ heap'[Len(heap')].due_date = Now
           ELSE IF due_date.type = "str" /\ C14_WellFormedInRange(due_date.v)
           THEN /\ result'.outcome = "return"
                /\ heap'[Len(heap')].due_date = C14_Midnight(due_date.v)
           ELSE /\ result'.outcome = "raise"
                /\ result'.error = "InvalidTaskDueDateError"
                /\ heap' = heap

\* what C21 states of the setters: a falsy value is refused
C21_SetterRefuses(x) ==
    (SameValue(result'.arg, x) /\ result'.op \in {"status", "due_date"})
        => /\ result'.outcome = "raise"
           /\ result'.error = C15_ErrorOf(result'.op)
           /\ heap' = heap

\* C21: the constructor takes a falsy status (None, "") for absent and
\* stores "pending", and a falsy due date (None, "") for absent and stores
\* the current time, without raising, although the status and due_date
\* setters refuse the same values; any other invalid status or due date
\* makes the constructor raise InvalidTaskStatusError or
\* InvalidTaskDueDateError and no Task results.
C21_FalsyMeansAbsent ==
    [][/\ result'.op = "Task" =>
              /\ \A status \in StatusArgs : C21_WithStatus(status)
              /\ \A status \in {None, NotAString, FalsyInt} :
                    C21_WithStatus(status)
              /\ \A due_date \in DueDateArgs : C21_WithDueDate(due_date)
              /\ \A due_date \in {None, NotAString, FalsyInt} :
                    C21_WithDueDate(due_date)
       /\ C21_SetterRefuses(None)
       /\ C21_SetterRefuses(Str(<<>>))]_vars

\* a Task was just constructed that holds "pending" and the current time,
\* as the constructions given None or "" for status and due date end
C21_Witness ==
    /\ result.op = "Task" /\ result.outcome = "return"
    /\ heap[Len(heap)].status = PENDING
    /\ heap[Len(heap)].due_date = Now


\* the list object the manager constructed last holds
C22_Held == managers'[Len(managers')]

\* the constructor made a list object of its own, empty, and no list
\* object that existed changed
C22_FreshEmpty ==
    /\ C22_Held = Len(lists) + 1 /\ Len(lists') = Len(lists) + 1
    /\ lists'[C22_Held] = <<>>
    /\ SubSeq(lists', 1, Len(lists)) = lists

\* C22: a TaskManager constructed with a non-empty list holds the caller's
\* list object itself, with exactly its Tasks in their order, duplicates
\* kept, nothing validated; constructed with no list or with an empty list
\* it holds a fresh empty list; and after an add_task or delete_task
\* through one manager every manager built from the same list object has
\* the same members as the list.
C22_HoldsCallersList ==
    [][/\ result'.op = "TaskManager" =>
              /\ Len(managers') = Len(managers) + 1
              /\ SubSeq(managers', 1, Len(managers)) = managers
              /\ heap' = heap
              /\ TaskManagerInitDefault => C22_FreshEmpty
              /\ \A l \in 1..Len(lists) :
                    TaskManagerInitShared(l)
                        => IF Len(lists[l]) > 0
                           THEN C22_Held = l /\ lists' = lists
                           ELSE C22_FreshEmpty
              /\ \A items \in NewLists :
                    TaskManagerInitNew(items)
                        => /\ C22_Held = result'.arg.v[1]
                           /\ lists'[C22_Held] = items
                           /\ SubSeq(lists', 1, Len(lists)) = lists
       /\ result'.op \in {"add_task", "delete_task"} =>
              \A m, n \in Managers :
                  managers[m] = managers[n]
                      => /\ managers'[m] = managers'[n]
                         /\ lists'[managers'[n]] = lists'[managers[m]]]_vars

\* a Task was just deleted through a manager whose list object a second
\* manager holds too
C22_Witness ==
    /\ result.op = "delete_task" /\ result.outcome = "return"
    /\ \E m, n \in Managers :
            /\ m # n /\ managers[m] = managers[n]
            /\ Len(task_list(m)) >= 1

====
